---- MODULE Spec2Model ----
(***************************************************************************)
(* Corrade::Containers::Pointer<T> (src/Corrade/Containers/Pointer.h): a   *)
(* move-only owning wrapper over a T*, deleting it on destruction.         *)
(*                                                                         *)
(* The model keeps a small heap of addresses, a fixed number of handle     *)
(* slots (each vacant or holding a constructed handle) with their _pointer *)
(* member, and the raw pointers the calling code is responsible for.       *)
(* operator new may hand out any address that is not currently allocated,  *)
(* so an address a delete has freed can come back.  `delete p` on an       *)
(* address where nothing is allocated is undefined behaviour; the model    *)
(* records it in badFree and follows the run no further (Defined).         *)
(*                                                                         *)
(* Spec is the class used by a caller that only hands over pointers it     *)
(* owns (or null); SpecAnyPointer lets the caller pass any pointer value.  *)
(***************************************************************************)
EXTENDS Integers, FiniteSets

NumHandles == 2
MaxAddr == 2

Handles == 1..NumHandles
Null == 0
Addr == 1..MaxAddr
PtrValues == {Null} \cup Addr

VARIABLES
    status,     \* status[h]: "none" (no handle in slot h) or "live" (constructed)
    ptr,        \* ptr[h]: the _pointer member of handle h (Null when none)
    heap,       \* the addresses that hold an allocated, constructed T
    raw,        \* addresses the calling code owns (its own new, or release())
    badFree,    \* delete once ran on an address where nothing was allocated
    last        \* the last operation: its name, operands and result

vars == <<status, ptr, heap, raw, badFree, last>>

NoOp == [op |-> "init", h |-> 0, arg |-> 0, old |-> Null, ret |-> Null]

\* arg: the pointer argument, or the other handle of a move; old: the
\* handle's _pointer before the call; ret: the value returned
Call(op, h, arg, old, ret) ==
    [op |-> op, h |-> h, arg |-> arg, old |-> old, ret |-> ret]

----------------------------------------------------------------------------
(* The allocator, as the delete- and new-expressions of Pointer.h use it.  *)

\* `delete p`: nothing for a null pointer, otherwise the object at p is
\* destroyed and its storage returned.
HeapAfterDelete(hp, p) == hp \ {p}

\* `delete p` with p neither null nor allocated: a double free.
\* A deallocation that does not accept the null pointer: `delete nullptr`
\* counts as a delete of an address that is not allocated.
DeleteNullFaults(bf, hp, p) == bf \/ p \notin hp

BadAfterDelete(bf, hp, p) == bf \/ (p # Null /\ p \notin hp)

\* `new T{...}`: the addresses it may return, none when the heap is exhausted.
NewAddrs(hp) == Addr \ hp

\* A raw pointer argument is the caller's to give when it is null or owned by
\* the caller.
Owned(p) == p = Null \/ p \in raw

----------------------------------------------------------------------------
(* Observers.                                                              *)

get(h) == ptr[h]
OpBool(h) == ptr[h] # Null
OpEqNull(h) == ~(ptr[h] # Null)

\* An operator!= that follows its comment ("false if the pointer is
\* nullptr, false otherwise") instead of returning _pointer.
OpNeNullAlwaysFalse(h) == FALSE

OpNeNull(h) == ptr[h] # Null

\* operator==(std::nullptr_t, const Pointer<T>& b) and its != twin
NullEqOp(b) == OpEqNull(b)
NullNeOp(b) == OpNeNull(b)

----------------------------------------------------------------------------
Init ==
    /\ status = [h \in Handles |-> "none"]
    /\ ptr = [h \in Handles |-> Null]
    /\ heap = {}
    /\ raw = {}
    /\ badFree = FALSE
    /\ last = NoOp

(* The calling code allocates a T itself: `new T{...}`.                    *)
CallerNew(a) ==
    /\ a \in NewAddrs(heap)
    /\ heap' = heap \cup {a}
    /\ raw' = raw \cup {a}
    /\ last' = Call("callerNew", 0, Null, Null, a)
    /\ UNCHANGED <<status, ptr, badFree>>

(* The calling code disposes of a raw pointer it owns: `delete p`.         *)
CallerDelete(a) ==
    /\ a \in raw
    /\ heap' = HeapAfterDelete(heap, a)
    /\ badFree' = BadAfterDelete(badFree, heap, a)
    /\ raw' = raw \ {a}
    /\ last' = Call("callerDelete", 0, a, Null, Null)
    /\ UNCHANGED <<status, ptr>>

\* A default constructor without the `_pointer{}` initialiser: the member
\* starts with whatever value the storage held.
DefaultCtorUninitialised(h) ==
    /\ status[h] = "none"
    /\ status' = [status EXCEPT ![h] = "live"]
    /\ \E p \in PtrValues : ptr' = [ptr EXCEPT ![h] = p]
    /\ last' = Call("defaultCtor", h, Null, Null, Null)
    /\ UNCHANGED <<heap, raw, badFree>>

(* Pointer(std::nullptr_t = nullptr)                                       *)
DefaultCtor(h) ==
    /\ status[h] = "none"
    /\ status' = [status EXCEPT ![h] = "live"]
    /\ ptr' = [ptr EXCEPT ![h] = Null]
    /\ last' = Call("defaultCtor", h, Null, Null, Null)
    /\ UNCHANGED <<heap, raw, badFree>>

(* explicit Pointer(T* pointer)                                            *)
AdoptCtor(h, p) ==
    /\ status[h] = "none"
    /\ status' = [status EXCEPT ![h] = "live"]
    /\ ptr' = [ptr EXCEPT ![h] = p]
    /\ raw' = raw \ {p}
    /\ last' = Call("adoptCtor", h, p, Null, Null)
    /\ UNCHANGED <<heap, badFree>>

(* explicit Pointer(InPlaceInitT, Args&&...): new T{...} succeeds.         *)
InPlaceCtor(h, a) ==
    /\ status[h] = "none"
    /\ a \in NewAddrs(heap)
    /\ heap' = heap \cup {a}
    /\ status' = [status EXCEPT ![h] = "live"]
    /\ ptr' = [ptr EXCEPT ![h] = a]
    /\ last' = Call("inPlaceCtor", h, Null, Null, a)
    /\ UNCHANGED <<raw, badFree>>

(* explicit Pointer(InPlaceInitT, Args&&...): new T{...} throws, so no     *)
(* handle comes to exist and nothing stays allocated.                      *)
InPlaceCtorThrows(h) ==
    /\ status[h] = "none"
    /\ last' = Call("inPlaceCtorThrows", h, Null, Null, Null)
    /\ UNCHANGED <<status, ptr, heap, raw, badFree>>

\* A move constructor that copies the pointer and forgets to null the source.
MoveCtorKeepsSource(h, other) ==
    /\ status[h] = "none"
    /\ status[other] = "live"
    /\ status' = [status EXCEPT ![h] = "live"]
    /\ ptr' = [ptr EXCEPT ![h] = ptr[other]]
    /\ last' = Call("moveCtor", h, other, Null, Null)
    /\ UNCHANGED <<heap, raw, badFree>>

(* Pointer(Pointer<T>&& other)                                             *)
MoveCtor(h, other) ==
    /\ status[h] = "none"
    /\ status[other] = "live"
    /\ status' = [status EXCEPT ![h] = "live"]
    /\ ptr' = [ptr EXCEPT ![h] = ptr[other], ![other] = Null]
    /\ last' = Call("moveCtor", h, other, Null, Null)
    /\ UNCHANGED <<heap, raw, badFree>>

\* std::swap(a, b) on two slots of f
Swap(f, a, b) == [f EXCEPT ![a] = f[b], ![b] = f[a]]

\* A move assignment written as reset(other.release()): it deletes the
\* destination's referent instead of handing it to the source.
MoveAssignDeletes(h, other) ==
    /\ status[h] = "live"
    /\ status[other] = "live"
    /\ heap' = IF h = other THEN heap ELSE HeapAfterDelete(heap, ptr[h])
    /\ badFree' = IF h = other THEN badFree ELSE BadAfterDelete(badFree, heap, ptr[h])
    /\ ptr' = IF h = other THEN ptr ELSE [ptr EXCEPT ![h] = ptr[other], ![other] = Null]
    /\ last' = Call("moveAssign", h, other, ptr[h], Null)
    /\ UNCHANGED <<status, raw>>

\* A move assignment that deletes its own referent and steals the other
\* one without looking whether the other handle is itself.
MoveAssignNoSelfCheck(h, other) ==
    /\ status[h] = "live"
    /\ status[other] = "live"
    /\ heap' = HeapAfterDelete(heap, ptr[h])
    /\ badFree' = BadAfterDelete(badFree, heap, ptr[h])
    /\ ptr' = [[ptr EXCEPT ![h] = ptr[other]] EXCEPT ![other] = Null]
    /\ last' = Call("moveAssign", h, other, ptr[h], Null)
    /\ UNCHANGED <<status, raw>>

(* Pointer<T>& operator=(Pointer<T>&& other)                               *)
MoveAssign(h, other) ==
    /\ status[h] = "live"
    /\ status[other] = "live"
    /\ ptr' = Swap(ptr, h, other)
    /\ last' = Call("moveAssign", h, other, ptr[h], Null)
    /\ UNCHANGED <<status, heap, raw, badFree>>

(* ~Pointer()                                                              *)
Destroy(h) ==
    /\ status[h] = "live"
    /\ heap' = HeapAfterDelete(heap, ptr[h])
    /\ badFree' = BadAfterDelete(badFree, heap, ptr[h])
    /\ status' = [status EXCEPT ![h] = "none"]
    /\ ptr' = [ptr EXCEPT ![h] = Null]
    /\ last' = Call("destroy", h, Null, ptr[h], Null)
    /\ UNCHANGED raw

\* A reset with its two statements in the wrong order: `_pointer = pointer;
\* delete _pointer;` deletes the new pointer and loses the old one.
ResetAssignsFirst(h, p) ==
    /\ status[h] = "live"
    /\ heap' = HeapAfterDelete(heap, p)
    /\ badFree' = BadAfterDelete(badFree, heap, p)
    /\ ptr' = [ptr EXCEPT ![h] = p]
    /\ raw' = raw \ {p}
    /\ last' = Call("reset", h, p, ptr[h], Null)
    /\ UNCHANGED status

(* void reset(T* pointer)                                                  *)
Reset(h, p) ==
    /\ status[h] = "live"
    /\ heap' = HeapAfterDelete(heap, ptr[h])
    /\ badFree' = BadAfterDelete(badFree, heap, ptr[h])
    /\ ptr' = [ptr EXCEPT ![h] = p]
    /\ raw' = raw \ {p}
    /\ last' = Call("reset", h, p, ptr[h], Null)
    /\ UNCHANGED status

\* An emplace that forgets `delete _pointer`: the old referent leaks.
EmplaceLeaks(h, a) ==
    /\ status[h] = "live"
    /\ a \in NewAddrs(heap)
    /\ heap' = heap \cup {a}
    /\ ptr' = [ptr EXCEPT ![h] = a]
    /\ last' = Call("emplace", h, Null, ptr[h], a)
    /\ UNCHANGED <<status, raw, badFree>>

(* T& emplace(Args&&...): delete _pointer, then new T{...} returns a.      *)
Emplace(h, a) ==
    /\ status[h] = "live"
    /\ a \in NewAddrs(HeapAfterDelete(heap, ptr[h]))
    /\ heap' = HeapAfterDelete(heap, ptr[h]) \cup {a}
    /\ badFree' = BadAfterDelete(badFree, heap, ptr[h])
    /\ ptr' = [ptr EXCEPT ![h] = a]
    /\ last' = Call("emplace", h, Null, ptr[h], a)
    /\ UNCHANGED <<status, raw>>

(* T& emplace(Args&&...): delete _pointer, then new T{...} throws before   *)
(* the assignment to _pointer.                                             *)
EmplaceThrows(h) ==
    /\ status[h] = "live"
    /\ heap' = HeapAfterDelete(heap, ptr[h])
    /\ badFree' = BadAfterDelete(badFree, heap, ptr[h])
    /\ last' = Call("emplaceThrows", h, Null, ptr[h], Null)
    /\ UNCHANGED <<status, ptr, raw>>

\* A release that returns _pointer and forgets to null it.
ReleaseKeepsPointer(h) ==
    /\ status[h] = "live"
    /\ raw' = raw \cup ({ptr[h]} \ {Null})
    /\ last' = Call("release", h, Null, ptr[h], ptr[h])
    /\ UNCHANGED <<status, ptr, heap, badFree>>

(* T* release()                                                            *)
Release(h) ==
    /\ status[h] = "live"
    /\ ptr' = [ptr EXCEPT ![h] = Null]
    /\ raw' = raw \cup ({ptr[h]} \ {Null})
    /\ last' = Call("release", h, Null, ptr[h], ptr[h])
    /\ UNCHANGED <<status, heap, badFree>>

----------------------------------------------------------------------------
(* Dereference.  CORRADE_ASSERT(condition, message, returnValue) comes     *)
(* from Corrade/Utility/Assert.h: in a checked build a false condition     *)
(* prints the message and then either aborts or, in a build with graceful  *)
(* assertions, returns returnValue from the enclosing function.  The model *)
(* records the report and the value returned; an aborting build stops at   *)
(* that point, which every property below covers as a prefix of the run.   *)

AssertMessage == "Containers::Pointer: the pointer is null"

\* The outcome of `CORRADE_ASSERT(condition, message, returnValue); return
\* value;` in a checked build.
CorradeAssert(condition, message, returnValue, value) ==
    IF condition
        THEN [failed |-> FALSE, msg |-> Null, ret |-> value]
        ELSE [failed |-> TRUE, msg |-> message, ret |-> returnValue]

\* An operator-> without the assertion: it hands out _pointer as it is.
ArrowUnchecked(h) ==
    /\ status[h] = "live"
    /\ last' = Call("arrow", h, Null, ptr[h], ptr[h])
    /\ UNCHANGED <<status, ptr, heap, raw, badFree>>

(* T* operator->()                                                         *)
Arrow(h) ==
    /\ status[h] = "live"
    /\ LET r == CorradeAssert(ptr[h] # Null, AssertMessage, Null, ptr[h])
       IN last' = Call(IF r.failed THEN "arrowAssert" ELSE "arrow",
                       h, r.msg, ptr[h], r.ret)
    /\ UNCHANGED <<status, ptr, heap, raw, badFree>>

(* T& operator*(): the reference returned designates the object at         *)
(* _pointer, also in the returnValue `*_pointer` of the assertion.         *)
Star(h) ==
    /\ status[h] = "live"
    /\ LET r == CorradeAssert(ptr[h] # Null, AssertMessage, ptr[h], ptr[h])
       IN last' = Call(IF r.failed THEN "starAssert" ELSE "star",
                       h, r.msg, ptr[h], r.ret)
    /\ UNCHANGED <<status, ptr, heap, raw, badFree>>

----------------------------------------------------------------------------
(* The observers as calls: each is const or returns a copy of _pointer,    *)
(* and the call record keeps what it returned.                             *)

Observe(op, h, value) ==
    /\ status[h] = "live"
    /\ last' = Call(op, h, Null, ptr[h], value)
    /\ UNCHANGED <<status, ptr, heap, raw, badFree>>

Get(h) == Observe("get", h, get(h))
BoolConv(h) == Observe("bool", h, OpBool(h))
EqNull(h) == Observe("eq", h, OpEqNull(h))
NeNull(h) == Observe("ne", h, OpNeNull(h))
NullEq(h) == Observe("nullEq", h, NullEqOp(h))
NullNe(h) == Observe("nullNe", h, NullNeOp(h))

ObserverOps == {"get", "bool", "eq", "ne", "nullEq", "nullNe"}

----------------------------------------------------------------------------
(* The helper functions.  Each returns a prvalue Pointer<T>{...}; the      *)
(* handle h that receives it is either that object itself (the copy is     *)
(* elided) or is move-constructed from it, after which the temporary is    *)
(* destroyed.  MoveOut is what both ways leave behind: the value in h and  *)
(* the pointer the temporary's destructor deletes.                         *)

MoveOut(p) == {[result |-> p, temp |-> Null]}

\* A pointer(T*) that resolves to the other overload, as it could for a T
\* constructible from T*: it allocates a new T from the pointer and leaves
\* the argument with the caller.
pointerAmbiguous(h, p) ==
    /\ status[h] = "none"
    /\ \E a \in NewAddrs(heap) :
          /\ heap' = heap \cup {a}
          /\ ptr' = [ptr EXCEPT ![h] = a]
    /\ status' = [status EXCEPT ![h] = "live"]
    /\ last' = Call("pointer", h, p, Null, Null)
    /\ UNCHANGED <<raw, badFree>>

(* Pointer<T> pointer(T* pointer)                                          *)
pointer(h, p) ==
    /\ status[h] = "none"
    /\ \E m \in MoveOut(p) :
          /\ ptr' = [ptr EXCEPT ![h] = m.result]
          /\ heap' = HeapAfterDelete(heap, m.temp)
          /\ badFree' = BadAfterDelete(badFree, heap, m.temp)
    /\ status' = [status EXCEPT ![h] = "live"]
    /\ raw' = raw \ {p}
    /\ last' = Call("pointer", h, p, Null, Null)

(* Pointer<T> pointer(Args&&... args): new T{...} succeeds.                *)
pointerArgs(h, a) ==
    /\ status[h] = "none"
    /\ a \in NewAddrs(heap)
    /\ \E m \in MoveOut(a) :
          /\ ptr' = [ptr EXCEPT ![h] = m.result]
          /\ heap' = HeapAfterDelete(heap \cup {a}, m.temp)
          /\ badFree' = BadAfterDelete(badFree, heap \cup {a}, m.temp)
    /\ status' = [status EXCEPT ![h] = "live"]
    /\ last' = Call("pointerArgs", h, Null, Null, a)
    /\ UNCHANGED raw

(* Pointer<T> pointer(Args&&... args): new T{...} throws.                  *)
pointerArgsThrows(h) ==
    /\ status[h] = "none"
    /\ last' = Call("pointerArgsThrows", h, Null, Null, Null)
    /\ UNCHANGED <<status, ptr, heap, raw, badFree>>

\* The behaviour of the program is defined as long as no `delete` was given
\* an address that is not allocated; what it does after that is anything,
\* and the model follows it no further.
Defined == badFree = FALSE

\* One call.  With strict, the caller keeps the precondition of Pointer(T*)
\* and reset(T*); without, it passes whatever pointer value it likes.
Step(strict) ==
    \/ \E a \in Addr : Defined /\ CallerNew(a)
    \/ \E a \in Addr : Defined /\ CallerDelete(a)
    \/ \E h \in Handles : Defined /\ DefaultCtor(h)
    \/ \E h \in Handles, p \in PtrValues : Defined /\ (strict => Owned(p)) /\ AdoptCtor(h, p)
    \/ \E h \in Handles, a \in Addr : Defined /\ InPlaceCtor(h, a)
    \/ \E h \in Handles : Defined /\ InPlaceCtorThrows(h)
    \/ \E h \in Handles, other \in Handles : Defined /\ MoveCtor(h, other)
    \/ \E h \in Handles, other \in Handles : Defined /\ MoveAssign(h, other)
    \/ \E h \in Handles : Defined /\ Destroy(h)
    \/ \E h \in Handles, p \in PtrValues : Defined /\ (strict => Owned(p)) /\ Reset(h, p)
    \/ \E h \in Handles, a \in Addr : Defined /\ Emplace(h, a)
    \/ \E h \in Handles : Defined /\ EmplaceThrows(h)
    \/ \E h \in Handles : Defined /\ Release(h)
    \/ \E h \in Handles : Defined /\ Arrow(h)
    \/ \E h \in Handles : Defined /\ Star(h)
    \/ \E h \in Handles, p \in PtrValues : Defined /\ (strict => Owned(p)) /\ pointer(h, p)
    \/ \E h \in Handles, a \in Addr : Defined /\ pointerArgs(h, a)
    \/ \E h \in Handles : Defined /\ pointerArgsThrows(h)
    \/ \E h \in Handles : Defined /\ Get(h)
    \/ \E h \in Handles : Defined /\ BoolConv(h)
    \/ \E h \in Handles : Defined /\ EqNull(h)
    \/ \E h \in Handles : Defined /\ NeNull(h)
    \/ \E h \in Handles : Defined /\ NullEq(h)
    \/ \E h \in Handles : Defined /\ NullNe(h)

Next == Step(TRUE)

NextAnyPointer == Step(FALSE)

Spec == Init /\ [][Next]_vars

SpecAnyPointer == Init /\ [][NextAnyPointer]_vars

----------------------------------------------------------------------------
(* Terms the claims use.                                                   *)

Live(h) == status[h] = "live"

\* h is non-empty in the sense of the data model: its referent exists.
HasReferent(h) == Live(h) /\ ptr[h] # Null /\ ptr[h] \in heap

AllDestroyed == \A h \in Handles : status[h] = "none"

----------------------------------------------------------------------------
\* C1: over every sequence of operations of a caller that only hands over
\* pointers it owns, delete never runs on a referent that has already been
\* deallocated (no double free).
C1_NoDoubleFree == badFree = FALSE

\* C2: once every handle has been destroyed, nothing is left allocated
\* except what the caller holds (no leak), and no referent was deallocated
\* more than once.
C2_NoLeakExactlyOnce == AllDestroyed => (heap \subseteq raw /\ badFree = FALSE)

\* C3: with a caller that only hands over pointers no handle owns, two
\* distinct live handles never hold the same non-null pointer.
C3_SingleOwner ==
    \A h \in Handles, g \in Handles :
        (h # g /\ Live(h) /\ Live(g) /\ ptr[h] # Null) => ptr[h] # ptr[g]

\* C4: between operations, every live handle with a non-null pointer
\* refers to an allocated, not yet deallocated referent.
C4_NonEmptyIsValid ==
    \A h \in Handles : (Live(h) /\ ptr[h] # Null) => ptr[h] \in heap

----------------------------------------------------------------------------
\* C5, as claimed: after any move transfer (move construction or move
\* assignment) from one handle to another, the destination holds what the
\* source held and the source is empty.
C5_MoveLeavesSourceEmpty ==
    [][(last'.op \in {"moveCtor", "moveAssign"} /\ last'.h # last'.arg) =>
        /\ ptr'[last'.h] = ptr[last'.arg]
        /\ ptr'[last'.arg] = Null]_vars

\* C5, amended: after move construction the new handle holds what the
\* source held and the source is empty; after move assignment the
\* destination holds what the source held and the source holds what the
\* destination held, so the source is empty exactly when the destination
\* was (a self-assignment changes nothing).
C5_MoveTransfers ==
    [][/\ last'.op = "moveCtor" =>
            /\ ptr'[last'.h] = ptr[last'.arg]
            /\ ptr'[last'.arg] = Null
       /\ last'.op = "moveAssign" =>
            /\ ptr'[last'.h] = ptr[last'.arg]
            /\ ptr'[last'.arg] = ptr[last'.h]
            /\ (ptr'[last'.arg] = Null) = (ptr[last'.h] = Null)]_vars

\* A move assignment onto a non-empty destination has just run: the
\* destination holds a referent and the source now holds the destination's
\* former one.
C5_Witness ==
    /\ last.op = "moveAssign"
    /\ last.h # last.arg
    /\ last.old # Null
    /\ ptr[last.arg] = last.old
    /\ last.old \in heap

\* C6: a move assignment between two distinct handles exchanges the two
\* pointers and changes nothing else: no handle is created or destroyed,
\* nothing is allocated, nothing is deallocated, no other handle and no
\* pointer of the caller changes.
C6_MoveAssignExchanges ==
    [][(last'.op = "moveAssign" /\ last'.h # last'.arg) =>
        /\ ptr' = [ptr EXCEPT ![last'.h] = ptr[last'.arg],
                              ![last'.arg] = ptr[last'.h]]
        /\ UNCHANGED <<status, heap, raw, badFree>>]_vars

\* Two distinct handles holding two distinct live referents have just
\* exchanged them.
C6_Witness ==
    /\ last.op = "moveAssign"
    /\ last.h # last.arg
    /\ HasReferent(last.h)
    /\ HasReferent(last.arg)
    /\ ptr[last.h] # ptr[last.arg]
    /\ ptr[last.arg] = last.old

----------------------------------------------------------------------------
\* C7, as claimed: reset(newRef) on a handle whose referent is live, for
\* every newRef, deallocates the prior referent exactly once, does not
\* deallocate newRef, and leaves the handle holding exactly newRef.
C7_ResetAnyPointer ==
    [][(last'.op = "reset" /\ HasReferent(last'.h)) =>
        /\ ptr[last'.h] \notin heap'
        /\ badFree' = badFree
        /\ (last'.arg \in heap => last'.arg \in heap')
        /\ ptr'[last'.h] = last'.arg]_vars

\* C7, amended: reset(newRef) on a handle whose referent is live, for every
\* newRef other than that referent, deallocates the prior referent exactly
\* once and nothing else, so newRef stays as valid as it was, and leaves
\* the handle holding exactly newRef (empty when newRef is null).
C7_ResetOtherPointer ==
    [][(last'.op = "reset" /\ HasReferent(last'.h)
            /\ last'.arg # ptr[last'.h]) =>
        /\ heap' = heap \ {ptr[last'.h]}
        /\ badFree' = badFree
        /\ (last'.arg \in heap => last'.arg \in heap')
        /\ ptr'[last'.h] = last'.arg
        /\ (last'.arg = Null) = OpEqNull(last.h)']_vars

\* reset has just replaced a live referent by another live one: the old one
\* is gone, the new one is allocated and held, and no delete went wrong.
C7_Witness ==
    /\ last.op = "reset"
    /\ last.old # Null
    /\ last.arg # Null
    /\ last.arg # last.old
    /\ ptr[last.h] = last.arg
    /\ last.arg \in heap
    /\ last.old \notin heap
    /\ badFree = FALSE

\* C8: release() on a handle whose referent is live returns that referent,
\* empties the handle and deallocates nothing; and in the step after a
\* release the returned referent stays allocated unless that step is the
\* caller deleting it.
C8_ReleasedStaysLive ==
    [][/\ (last'.op = "release" /\ HasReferent(last'.h)) =>
            /\ last'.ret = ptr[last'.h]
            /\ ptr'[last'.h] = Null
            /\ UNCHANGED <<heap, badFree, status>>
       /\ (last.op = "release" /\ last.ret \in heap
            /\ ~(last'.op = "callerDelete" /\ last'.arg = last.ret)) =>
            last.ret \in heap']_vars

\* C9: a successful emplace on a handle whose referent is live deallocates
\* that referent exactly once (on an empty handle it deallocates nothing);
\* the referent it allocates is at an address that held no other live
\* referent; afterwards the handle holds the new referent, which is
\* allocated, and the reference returned designates what get() returns.
C9_EmplaceReplaces ==
    [][last'.op = "emplace" =>
        /\ (HasReferent(last'.h) \/ ptr[last'.h] = Null) =>
                /\ heap' = (heap \ {ptr[last'.h]}) \cup {ptr'[last'.h]}
                /\ badFree' = badFree
        /\ ptr'[last'.h] \in Addr
        /\ ptr'[last'.h] \notin heap \ {ptr[last'.h]}
        /\ ptr'[last'.h] \in heap'
        /\ last'.ret = ptr'[last'.h]
        /\ UNCHANGED <<status, raw>>]_vars

\* emplace has just replaced a live referent by a new one at another
\* address: the old one is gone and the returned reference is the new one.
C9_Witness ==
    /\ last.op = "emplace"
    /\ last.old # Null
    /\ last.ret # last.old
    /\ ptr[last.h] = last.ret
    /\ last.ret \in heap
    /\ last.old \notin heap
    /\ badFree = FALSE

\* C10: default (null-marker) construction yields an empty handle (get()
\* is null, it compares equal to null, its boolean conversion is false)
\* and allocates or deallocates nothing; release() on an empty handle
\* returns null, leaves it empty and deallocates nothing.
C10_DefaultIsEmpty ==
    [][\A h \in Handles :
        /\ (last'.op = "defaultCtor" /\ last'.h = h) =>
            /\ Live(h)'
            /\ (get(h) = Null)'
            /\ OpEqNull(h)'
            /\ ~OpBool(h)'
            /\ ~OpNeNull(h)'
            /\ UNCHANGED <<heap, raw, badFree>>
        /\ (last'.op = "release" /\ last'.h = h /\ OpEqNull(h)) =>
            /\ last'.ret = Null
            /\ OpEqNull(h)'
            /\ UNCHANGED <<status, heap, raw, badFree>>]_vars

\* A handle has just been default-constructed while something else is
\* allocated, and it is empty.
C10_Witness ==
    /\ last.op = "defaultCtor"
    /\ Live(last.h)
    /\ get(last.h) = Null
    /\ heap # {}

----------------------------------------------------------------------------
\* C11: -> and * on a handle with a non-null pointer return exactly what
\* get() returns and change no state; on an empty handle, in a checked
\* build, they report the assertion failure with the fixed message, give
\* back no referent (a null pointer) and leave the handle empty and
\* everything else unchanged.
C11_Dereference ==
    [][\A h \in Handles :
        (last'.h = h /\ last'.op \in {"arrow", "star", "arrowAssert", "starAssert"}) =>
            /\ UNCHANGED <<status, ptr, heap, raw, badFree>>
            /\ OpBool(h) =>
                    /\ last'.op \in {"arrow", "star"}
                    /\ last'.ret = get(h)
            /\ ~OpBool(h) =>
                    /\ last'.op \in {"arrowAssert", "starAssert"}
                    /\ last'.arg = AssertMessage
                    /\ last'.ret = Null
                    /\ last'.ret \notin heap'
                    /\ ~OpBool(h)']_vars

\* An empty handle has just been dereferenced with * while another referent
\* is allocated: the assertion was reported and nothing was handed out.
C11_Witness ==
    /\ last.op = "starAssert"
    /\ Live(last.h)
    /\ ~OpBool(last.h)
    /\ last.arg = AssertMessage
    /\ last.ret = Null
    /\ heap # {}

----------------------------------------------------------------------------
----------------------------------------------------------------------------
\* C13: pointer(p) does what the adopting constructor does on p: the new
\* handle holds p, the caller no longer owns p, and nothing is allocated or
\* deallocated.  pointer<T>(args...) does what in-place construction does:
\* exactly one new allocation, held by the new handle, and nothing else
\* changes.  (A failed construction creates no handle in either.)
C13_HelpersEqualConstructors ==
    [][last'.h \in Handles => \A h \in {last'.h} :
        /\ (last'.h = h /\ last'.op \in {"pointer", "adoptCtor"}) =>
              /\ status[h] = "none"
              /\ status' = [status EXCEPT ![h] = "live"]
              /\ ptr' = [ptr EXCEPT ![h] = last'.arg]
              /\ raw' = raw \ {last'.arg}
              /\ UNCHANGED <<heap, badFree>>
        /\ (last'.h = h /\ last'.op \in {"pointerArgs", "inPlaceCtor"}) =>
              /\ status[h] = "none"
              /\ status' = [status EXCEPT ![h] = "live"]
              /\ last'.ret \in Addr \ heap
              /\ heap' = heap \cup {last'.ret}
              /\ ptr' = [ptr EXCEPT ![h] = last'.ret]
              /\ UNCHANGED <<raw, badFree>>
        /\ (last'.h = h /\ last'.op \in {"pointerArgsThrows", "inPlaceCtorThrows"}) =>
              UNCHANGED <<status, ptr, heap, raw, badFree>>]_vars

\* pointer<T>(args...) has just made a handle while another handle holds a
\* referent: the new handle holds the one address that was free.
C13_Witness ==
    /\ last.op = "pointerArgs"
    /\ HasReferent(last.h)
    /\ ptr[last.h] = last.ret
    /\ \E g \in Handles \ {last.h} : HasReferent(g) /\ ptr[g] # ptr[last.h]

----------------------------------------------------------------------------
\* C14: there is no copy operation (the copy constructor and the copy
\* assignment are deleted, which a compiler enforces), so no call makes a
\* handle h refer to the referent that another handle g held before the
\* call and still holds after it.
C14_NoSecondHandle ==
    [][\A g \in Handles : \A h \in Handles \ {g} :
        (/\ HasReferent(g)
         /\ ~(HasReferent(h) /\ ptr[h] = ptr[g])
         /\ HasReferent(g)'
         /\ ptr'[g] = ptr[g])
        => ~(HasReferent(h)' /\ ptr'[h] = ptr[g])]_vars

----------------------------------------------------------------------------
\* C15: when emplace fails after deleting the old referent, the handle is
\* left empty: it does not keep the address of the deallocated referent,
\* and destroying it afterwards deallocates nothing.
C15_FailedEmplaceEmpties ==
    [][\A h \in Handles :
        /\ (last'.op = "emplaceThrows" /\ last'.h = h) =>
              /\ ~OpBool(h)'
              /\ last'.old \notin heap'
        /\ (last.op = "emplaceThrows" /\ last.h = h /\
            last'.op = "destroy" /\ last'.h = h) =>
              UNCHANGED <<heap, badFree>>]_vars

----------------------------------------------------------------------------
\* The calls by which a handle gives up its referent by deleting it.
DisposingOps == {"destroy", "reset", "emplace", "emplaceThrows"}

\* C16: after h2 = move(h1) onto a non-empty h2 (h1 # h2), the referent r
\* that h2 held is still live; the next call leaves it live unless it is
\* the destruction of h1 or a reset/emplace on h1, and that call
\* deallocates r once (no delete of an address already freed) and does not
\* deallocate the referent h2 now holds.
C16_MovedOntoStaysLive ==
    [][\A h1 \in Handles : \A h2 \in Handles \ {h1} :
        (/\ last.op = "moveAssign" /\ last.h = h2 /\ last.arg = h1
         /\ last.old # Null /\ last.old \in heap
         /\ HasReferent(h2))
        => IF last'.h = h1 /\ last'.op \in DisposingOps
             THEN /\ badFree' = badFree
                  /\ last.old \notin heap' \/ last'.ret = last.old
                  /\ ptr'[h2] = ptr[h2]
                  /\ ptr[h2] \in heap'
             ELSE last.old \in heap']_vars

----------------------------------------------------------------------------
\* C17: on an empty handle, destruction, reset(null) and release()
\* deallocate nothing, and reset(null) and release() leave it empty; a move
\* construction from an empty handle and a move assignment from or onto an
\* empty handle deallocate nothing either.
C17_EmptyDeallocatesNothing ==
    [][last'.op \in {"destroy", "release", "reset", "moveCtor", "moveAssign"} =>
       \A h \in Handles :
        /\ (/\ last'.h = h /\ Live(h) /\ ~OpBool(h)
            /\ \/ last'.op \in {"destroy", "release"}
               \/ last'.op = "reset" /\ last'.arg = Null)
           => /\ UNCHANGED <<heap, badFree>>
              /\ last'.op # "destroy" => (Live(h) /\ ~OpBool(h))'
        /\ (/\ last'.h = h /\ last'.op \in {"moveCtor", "moveAssign"}
            /\ \E g \in {h, last'.arg} : Live(g) /\ ~OpBool(g))
           => UNCHANGED <<heap, badFree>>]_vars

\* An empty handle has just been destroyed while another handle holds a
\* referent, which is still allocated, and nothing was deleted twice.
C17_Witness ==
    /\ last.op = "destroy"
    /\ last.old = Null
    /\ \E g \in Handles : HasReferent(g)
    /\ badFree = FALSE

----------------------------------------------------------------------------
\* C18: h.reset(h.release()) deallocates nothing and leaves h holding what
\* it held before (nothing if it was empty), every other handle and every
\* referent as it was.  In two calls: release() changes only h, which
\* becomes empty, and returns what h held; reset given that value changes
\* only h, which holds it again.
C18_ResetReleaseRoundTrip ==
    [][\A h \in Handles :
        /\ (last'.op = "release" /\ last'.h = h) =>
              /\ last'.ret = get(h) /\ last'.old = get(h)
              /\ ptr' = [ptr EXCEPT ![h] = Null]
              /\ UNCHANGED <<status, heap, badFree>>
        /\ (/\ last.op = "release" /\ last.h = h
            /\ last'.op = "reset" /\ last'.h = h /\ last'.arg = last.ret) =>
              /\ ptr' = [ptr EXCEPT ![h] = last.old]
              /\ UNCHANGED <<status, heap, badFree>>]_vars

\* reset has just put a live referent into an empty handle, the state in
\* which h.reset(h.release()) ends for a handle that held one.
C18_Witness ==
    /\ last.op = "reset"
    /\ last.old = Null
    /\ last.arg # Null
    /\ HasReferent(last.h)
    /\ get(last.h) = last.arg
    /\ badFree = FALSE

----------------------------------------------------------------------------
\* C19: h = move(h) changes nothing: h keeps what it held and nothing is
\* allocated or deallocated.  a = move(b) followed by b = move(a) gives
\* both handles back what they held: the first call exchanges the two
\* pointers and the second, in the opposite direction, exchanges them
\* again, neither allocating nor deallocating.
C19_MoveAssignInvolution ==
    [][last'.op = "moveAssign" => \A a \in Handles : \A b \in Handles :
        /\ (last'.op = "moveAssign" /\ last'.h = a /\ last'.arg = a) =>
              UNCHANGED <<status, ptr, heap, raw, badFree>>
        /\ (last'.op = "moveAssign" /\ last'.h = a /\ last'.arg = b) =>
              /\ last'.old = get(a)
              /\ get(a)' = get(b) /\ get(b)' = get(a)
              /\ \A g \in Handles \ {a, b} : get(g)' = get(g)
              /\ UNCHANGED <<status, heap, raw, badFree>>
        /\ (/\ last.op = "moveAssign" /\ last.h = a /\ last.arg = b
            /\ last'.op = "moveAssign" /\ last'.h = b /\ last'.arg = a) =>
              /\ get(a)' = last.old
              /\ get(b)' = get(a)
              /\ \A g \in Handles \ {a, b} : get(g)' = get(g)
              /\ UNCHANGED <<status, heap, raw, badFree>>]_vars

\* A handle holding a live referent has just been move-assigned to itself.
C19_Witness ==
    /\ last.op = "moveAssign"
    /\ last.arg = last.h
    /\ last.old # Null
    /\ HasReferent(last.h)
    /\ get(last.h) = last.old

====
